---- MODULE Spec2Model ----
(***************************************************************************)
(* Model of the Nebula Pad session coordinator                             *)
(* (custom_components/nebula_pad/coordinator.py, NebulaPadCoordinator).    *)
(*                                                                         *)
(* The coordinator runs on a single asyncio event loop.  Every action of   *)
(* this module is the run of one coroutine from the point where it is      *)
(* resumed to the next point where it suspends (an await on the network,   *)
(* on a lock, on a sleep or on another task), so the interleavings of the  *)
(* model are the interleavings of the event loop.  A task that has been    *)
(* cancelled receives CancelledError at the await it is suspended in; that *)
(* exception is a BaseException and passes every `except Exception`.       *)
(***************************************************************************)
EXTENDS Integers, Sequences, FiniteSets, TLC

\* ------------------------------------------------------------------ bounds
MaxStarts == 2
MaxSends == 1
MaxHandlers == 2
MaxLen == 4

\* --------------------------------------------------------------- constants
None == 0
Tasks == 1..MaxStarts
Msgs == 1..MaxSends
HandlerIds == {"h1", "h2"}
Heartbeat == 0

\* coordinator.py has no `import json`: the name json in
\* _listen_for_messages is unbound and evaluating it raises NameError.
JsonBound == FALSE

\* The frames ws.receive() can return, by message type and payload.
\*   ok       TEXT frame with data "ok"
\*   json     TEXT frame holding a JSON object without the identity fields
\*   ident    TEXT frame holding a JSON object with hostname/model/modelVersion
\*   bad      TEXT frame that is not JSON
\*   closed   WSMsgType.CLOSED or WSMsgType.ERROR
\*   other    any other type (BINARY, PING, CLOSING, ...)
\*   raise    receive() raised an exception
JsonFrames == {"json", "ident"}
TextFrames == JsonFrames \cup {"ok", "bad"}
Frames == TextFrames \cup {"closed", "other", "raise"}

\* ------------------------------------------------------- sensor platform
\* sensor.py: async_setup_entry builds the two temperature sensors and one
\* WebSocketCoordinator, which it hands to both.  The task a start() call
\* creates is named after the entity that made the call.
Nozzle == 1
Bed == 2
Entities == {Nozzle, Bed}

\* the temperature a frame reports
Temp == 1

\* The values ws.recv() can return or raise.
\*   ok       the text "ok"
\*   nozzle   a JSON object with nozzleTemp
\*   bed      a JSON object with bedTemp0
\*   both     a JSON object with both keys
\*   other    a JSON object with neither key
\*   bad      a text that is not JSON
\*   closed   ConnectionClosed or WebSocketException raised
\*   raise    any other exception raised
TempKeys ==
    [ok |-> {}, nozzle |-> {Nozzle}, bed |-> {Bed}, both |-> {Nozzle, Bed},
     other |-> {}, bad |-> {}, closed |-> {}, raise |-> {}]
SensorFrames == DOMAIN TempKeys

\* The sensor platform after async_setup_entry: entity says where each
\* sensor is in its life ("new", "added", "removing", "removed"), value is
\* its native value, updated the sensors that wrote their state in the last
\* step; the other fields are those of the WebSocketCoordinator, with rm
\* and rmWait the position of each entity's stop() call and the task it
\* awaits.
NewPlatform ==
    [entity |-> [e \in Entities |-> "new"],
     value |-> [e \in Entities |-> None],
     updated |-> {},
     ws |-> None, shutdown |-> FALSE, connection_task |-> None,
     heartbeat_task |-> None, lock |-> None,
     mt |-> [t \in Entities |-> "none"],
     cancelReq |-> [t \in Entities |-> FALSE],
     unwind |-> [t \in Entities |-> "normal"],
     hb |-> [t \in Entities |-> "none"],
     hbCancel |-> [t \in Entities |-> FALSE],
     sock |-> [t \in Entities |-> "none"],
     rm |-> [e \in Entities |-> "idle"],
     rmWait |-> [e \in Entities |-> None]]

VARIABLES
    ws,               \* self._ws: None or the task whose socket it is
    session,          \* self._session: None or a session id
    shutdown,         \* self._shutdown
    connection_task,  \* self._connection_task: None or a task id
    heartbeat_task,   \* self._heartbeat_task: None or the owning task id
    lock,             \* self._connect_lock: None or the holder
    handlers,         \* self._message_handlers
    device_info,      \* self._device_info: None or the frame it came from
    received,         \* self._device_info_received
    mt,               \* position of each maintenance task
    cancelReq,        \* Task.cancel() was called and not yet delivered
    unwind,           \* what leaves the finally block: "normal" or "cancel"
    hb,               \* position of the heartbeat sub-task of each task
    hbCancel,         \* cancel() pending on that heartbeat sub-task
    sock,             \* the socket of each task: "none", "open", "closed"
    via,              \* the session a task's connection was dialled on
    sessOpen,         \* the client sessions created and not closed
    stopPc,           \* position of the caller inside stop()
    stopWait,         \* the task stop() is awaiting
    nStarts,          \* start() calls so far
    norest,           \* the tasks waiting for the connect lock that came
                      \* there from a connection that ended, with no sleep
    ev,               \* what the step that led to this state did
    outcome,          \* per send_message call: "none" (not made yet), or
                      \* whether self._ws was None when it was made
    writes,           \* per send_message call: number of socket writes
    call,             \* the last call of a helper or of the config flow
    ret,              \* and what it returned
    platform          \* the sensor platform: its two entities and their
                      \* WebSocketCoordinator

vars == <<ws, session, shutdown, connection_task, heartbeat_task, lock,
          handlers, device_info, received, mt, cancelReq, unwind, hb,
          hbCancel, sock, via, sessOpen, stopPc, stopWait, nStarts,
          norest, ev, outcome, writes, call, ret, platform>>

\* ev observes one step: the frame a receive loop processed in it (and the
\* task), the handlers that raise on that frame, the handlers it invoked,
\* the number of writes to a socket, the message send_message was called
\* with (-1: none), whether send_json raised, whether an exception left
\* send_message or remove_message_handler, whether a ws_connect began and
\* whether the task had slept (or was new) since its last attempt, and the
\* handler remove_message_handler was called with; for a JSON frame also
\* the handlers registered when it arrived and what a handler does to the
\* handler collection when it is invoked.
NoMut == [by |-> "none", op |-> "none", arg |-> "none"]

NoEv == [recv |-> "none", rtask |-> None, raisers |-> {}, calls |-> <<>>,
         wrote |-> 0, sent |-> -1, failed |-> FALSE, exc |-> FALSE,
         dialled |-> FALSE, rested |-> TRUE, removed |-> "none",
         regd |-> <<>>, mut |-> NoMut]

\* The whole state as one record, so that a coroutine's run is the
\* composition of the effects of its statements.
Cur ==
    [ws |-> ws, session |-> session, shutdown |-> shutdown,
     connection_task |-> connection_task, heartbeat_task |-> heartbeat_task,
     lock |-> lock, handlers |-> handlers, device_info |-> device_info,
     received |-> received, mt |-> mt, cancelReq |-> cancelReq,
     unwind |-> unwind, hb |-> hb, hbCancel |-> hbCancel, sock |-> sock,
     via |-> via, sessOpen |-> sessOpen, stopPc |-> stopPc,
     stopWait |-> stopWait, nStarts |-> nStarts, norest |-> norest,
     ev |-> NoEv,
     outcome |-> outcome, writes |-> writes]

Becomes(s) ==
    /\ ws' = s.ws /\ session' = s.session /\ shutdown' = s.shutdown
    /\ connection_task' = s.connection_task
    /\ heartbeat_task' = s.heartbeat_task
    /\ lock' = s.lock /\ handlers' = s.handlers
    /\ device_info' = s.device_info /\ received' = s.received
    /\ mt' = s.mt /\ cancelReq' = s.cancelReq /\ unwind' = s.unwind
    /\ hb' = s.hb /\ hbCancel' = s.hbCancel /\ sock' = s.sock
    /\ via' = s.via /\ sessOpen' = s.sessOpen /\ stopPc' = s.stopPc
    /\ stopWait' = s.stopWait /\ nStarts' = s.nStarts
    /\ norest' = s.norest
    /\ ev' = s.ev /\ outcome' = s.outcome /\ writes' = s.writes
    /\ UNCHANGED <<call, ret, platform>>

\* no helper has been called
NoCall == [fn |-> "none"]
NoRet == [none |-> TRUE]

\* NebulaPadCoordinator.__init__
Init ==
    /\ call = NoCall /\ ret = NoRet
    /\ platform = NewPlatform
    /\ norest = {}
    /\ ws = None /\ session = None /\ shutdown = FALSE
    /\ connection_task = None /\ heartbeat_task = None
    /\ lock = None /\ handlers = <<>>
    /\ device_info = None /\ received = FALSE
    /\ mt = [t \in Tasks |-> "none"]
    /\ cancelReq = [t \in Tasks |-> FALSE]
    /\ unwind = [t \in Tasks |-> "normal"]
    /\ hb = [t \in Tasks |-> "none"]
    /\ hbCancel = [t \in Tasks |-> FALSE]
    /\ sock = [t \in Tasks |-> "none"]
    /\ via = [t \in Tasks |-> None]
    /\ sessOpen = {}
    /\ stopPc = "idle" /\ stopWait = None /\ nStarts = 0
    /\ ev = NoEv
    /\ outcome = [m \in Msgs |-> "none"]
    /\ writes = [m \in Msgs |-> 0]

TaskOver(s, t) == s.mt[t] \in {"none", "done", "cancelled"}
HbOver(s, h) == s.hb[h] \in {"none", "done"}

\* ------------------------------------------------------------ send_message
\* ws.send_json(m) on the socket self._ws: one write (message 0 is the
\* heartbeat object), or an exception when ok is false or the socket is
\* already closed.
send_json(s, m, ok) ==
    IF ok /\ s.sock[s.ws] = "open"
    THEN LET r == [s EXCEPT !.ev.wrote = @ + 1]
         IN  IF m \in Msgs THEN [r EXCEPT !.writes[m] = @ + 1] ELSE r
    ELSE [s EXCEPT !.ev.failed = TRUE]

\* (mutant) a failed write is tried once more
send_message_retry(s, m, ok) ==
    IF s.ws = None THEN s
    ELSE LET r == send_json(s, m, ok)
         IN  IF r.ev.failed THEN send_json(r, m, TRUE) ELSE r

\* (mutant) a call without a socket raises instead of returning
send_message_raising(s, m, ok) ==
    IF s.ws = None THEN [s EXCEPT !.ev.exc = TRUE] ELSE send_json(s, m, ok)

\* send_message: the message is dropped without a socket, and an exception
\* of send_json is logged and not raised again.
send_message(s, m, ok) ==
    IF s.ws = None THEN s ELSE send_json(s, m, ok)

\* ------------------------------------------------- handler registration
add_message_handler(s, h) == [s EXCEPT !.handlers = Append(@, h)]

RECURSIVE RemoveFirst(_, _)
RemoveFirst(q, h) ==
    IF q = <<>> THEN <<>>
    ELSE IF Head(q) = h THEN Tail(q)
    ELSE <<Head(q)>> \o RemoveFirst(Tail(q), h)

Registered(q) == {q[i] : i \in 1..Len(q)}

\* (mutant) the ValueError of list.remove is not suppressed
remove_message_handler_unsuppressed(s, h) ==
    IF h \in Registered(s.handlers)
    THEN [s EXCEPT !.handlers = RemoveFirst(@, h)]
    ELSE [s EXCEPT !.ev.exc = TRUE]

\* remove_message_handler: list.remove raises ValueError for a handler
\* that is not in the list, and suppress(ValueError) swallows it.
remove_message_handler(s, h) ==
    IF h \in Registered(s.handlers)
    THEN [s EXCEPT !.handlers = RemoveFirst(@, h)]
    ELSE s

\* ------------------------------------------------------ maintenance task
Cancelled(s, t) ==
    [s EXCEPT !.mt[t] = "cancelled", !.cancelReq[t] = FALSE,
              !.norest = @ \ {t}]

\* asyncio.Lock is fair: a free lock is taken at once only when no live
\* waiter is queued (a cancelled waiter's future is cancelled at once).
NoWaiters(s) == \A u \in Tasks : s.mt[u] = "lock_wait" => s.cancelReq[u]

\* (mutant) an exception of _connect_and_listen ends the maintenance task
FailedFatal(s, t) == [s EXCEPT !.lock = None, !.mt[t] = "done"]

\* An exception leaves _connect_and_listen: the lock is released and
\* _maintain_connection sleeps the reconnect interval unless shut down.
Failed(s, t) ==
    LET r == [s EXCEPT !.lock = None]
    IN  IF r.shutdown THEN [r EXCEPT !.mt[t] = "done"]
        ELSE [r EXCEPT !.mt[t] = "sleeping"]

\* _connect_and_listen once the lock is held, up to the await of ws_connect.
Dial(s, t) ==
    LET r == [s EXCEPT !.norest = @ \ {t}]
    IN  IF s.shutdown THEN [r EXCEPT !.lock = None, !.mt[t] = "done"]
        ELSE IF s.session = None THEN Failed(r, t)
        ELSE [r EXCEPT !.mt[t] = "connecting", !.via[t] = s.session,
                       !.ev.dialled = TRUE,
                       !.ev.rested = t \notin s.norest]

\* (mutant) the connect lock is not consulted
LoopTopNoLock(s, t) ==
    IF s.shutdown THEN [s EXCEPT !.mt[t] = "done", !.norest = @ \ {t}]
    ELSE Dial([s EXCEPT !.lock = t], t)

\* The loop test of _maintain_connection and the entry of
\* _connect_and_listen.
LoopTop(s, t) ==
    IF s.shutdown THEN [s EXCEPT !.mt[t] = "done", !.norest = @ \ {t}]
    ELSE IF s.lock = None /\ NoWaiters(s) THEN Dial([s EXCEPT !.lock = t], t)
    ELSE [s EXCEPT !.mt[t] = "lock_wait"]

\* (mutant) the maintenance task ends when a connection has ended
ReenterNever(s, t) == [s EXCEPT !.mt[t] = "done"]

\* _connect_and_listen returned without an exception: _maintain_connection
\* goes round its loop, with no sleep.
Reenter(s, t) == LoopTop([s EXCEPT !.norest = @ \cup {t}], t)

\* The end of the finally block and the exit of the ws_connect context.
AfterJoin(s, t, mode) ==
    [s EXCEPT !.heartbeat_task = None, !.ws = None, !.mt[t] = "ws_exit",
              !.unwind[t] = mode, !.cancelReq[t] = FALSE]

\* (mutant) the finally block clears the socket handle only
EnterFinallyKeepsHeartbeat(s, t, mode) ==
    [s EXCEPT !.ws = None, !.mt[t] = "ws_exit", !.unwind[t] = mode,
              !.cancelReq[t] = FALSE]

\* The finally block of _connect_and_listen: cancel the heartbeat sub-task
\* and await it.  mode says what left the try block.
EnterFinally(s, t, mode) ==
    LET h == s.heartbeat_task
    IN  IF h = None THEN [s EXCEPT !.ws = None, !.mt[t] = "ws_exit",
                                   !.unwind[t] = mode, !.cancelReq[t] = FALSE]
        ELSE IF s.hb[h] \in {"none", "done"} THEN AfterJoin(s, t, mode)
        ELSE [s EXCEPT !.hbCancel[h] = TRUE, !.mt[t] = "hb_join",
                       !.unwind[t] = mode, !.cancelReq[t] = FALSE]

\* The loop test of _listen_for_messages.
Listen(s, t) ==
    IF s.shutdown THEN EnterFinally(s, t, "normal")
    ELSE [s EXCEPT !.mt[t] = "receiving"]

\* ws_connect succeeded: the socket is stored and the heartbeat sub-task
\* is created.
Connected(s, t) ==
    Listen([s EXCEPT !.ws = t, !.sock[t] = "open", !.heartbeat_task = t,
                     !.hb[t] = "ready", !.hbCancel[t] = FALSE], t)

\* _handle_device_info: regOk tells whether the device registry call
\* returns; the result says whether the handler returned.
handle_device_info(s, f, regOk) ==
    IF f # "ident" THEN s
    ELSE IF regOk THEN [s EXCEPT !.device_info = f, !.received = TRUE]
    ELSE [s EXCEPT !.device_info = f]

\* What a handler may do to the handler collection when it is invoked:
\* handler by calls add_message_handler(arg) or remove_message_handler(arg)
\* the first time it runs.
Mutations ==
    {NoMut} \cup {[by |-> h, op |-> o, arg |-> g] :
                     h \in HandlerIds, o \in {"add", "remove"},
                     g \in HandlerIds}

\* The mutations the handlers registered in q can make (the collection is
\* kept within MaxHandlers).
HandlerMutations(q) ==
    {m \in Mutations :
        \/ m = NoMut
        \/ /\ m.by \in Registered(q)
           /\ m.op = "add" => Len(q) < MaxHandlers}

\* `for handler in self._message_handlers` from position i: the list
\* iterator reads the live list by index, so a change a handler makes to
\* the list is seen by the rest of the loop.
RECURSIVE Iterate(_, _, _, _, _)
Iterate(q, i, calls, mut, fired) ==
    IF i > Len(q) THEN [calls |-> calls, handlers |-> q]
    ELSE LET h == q[i]
             fire == ~fired /\ mut.by = h
             q2 == IF ~fire THEN q
                   ELSE IF mut.op = "add" THEN Append(q, mut.arg)
                   ELSE IF mut.arg \in Registered(q)
                        THEN RemoveFirst(q, mut.arg)
                   ELSE q
         IN  Iterate(q2, i + 1, Append(calls, h), mut, fired \/ fire)

\* The handlers the for loop of _listen_for_messages awaits, in order, and
\* the handler collection it leaves; an exception of one of them (raisers)
\* is caught inside the loop.
Dispatch(regd, raisers, mut) == Iterate(regd, 1, <<>>, mut, FALSE)

\* (mutant) the literal ok is handed to json.loads like any other text
HeartbeatAckParsed(s, t) == EnterFinally(s, t, "normal")

\* A TEXT frame whose data is "ok": `continue`.
HeartbeatAck(s, t) == Listen(s, t)

\* One iteration of the receive loop on frame f.
ProcessFrame(s, t, f, regOk, raisers, mut) ==
    LET seen(calls, r) ==
            [r EXCEPT !.ev.recv = f, !.ev.rtask = t, !.ev.calls = calls,
                      !.ev.raisers = raisers, !.ev.mut = mut,
                      !.ev.regd = IF f \in JsonFrames THEN s.handlers
                                  ELSE <<>>]
        d == Dispatch(s.handlers, raisers, mut)
    IN
    IF f = "ok" THEN seen(<<>>, HeartbeatAck(s, t))
    ELSE IF f \in TextFrames THEN
        IF ~JsonBound THEN seen(<<>>, EnterFinally(s, t, "normal"))
        ELSE IF f = "bad" THEN seen(<<>>, Listen(s, t))
        ELSE IF f = "ident" /\ ~regOk
             THEN seen(<<>>, EnterFinally(handle_device_info(s, f, regOk),
                                          t, "normal"))
        ELSE seen(d.calls,
                  Listen([handle_device_info(s, f, regOk)
                             EXCEPT !.handlers = d.handlers], t))
    ELSE IF f = "closed" THEN
        seen(<<>>, EnterFinally([s EXCEPT !.sock[t] = "closed"], t, "normal"))
    ELSE IF f = "raise" THEN seen(<<>>, EnterFinally(s, t, "normal"))
    ELSE seen(<<>>, Listen(s, t))

\* ------------------------------------------------------ heartbeat sub-task
HbFinish(s, h) ==
    LET r == [s EXCEPT !.hb[h] = "done", !.hbCancel[h] = FALSE]
    IN  IF r.stopPc = "join_hb" /\ r.stopWait = h
        THEN [r EXCEPT !.stopPc = "hb_joined"] ELSE r

\* (mutant) two heartbeats are sent before each sleep
send_heartbeats_twice(s, h, ok) ==
    IF s.shutdown \/ s.ws = None THEN HbFinish(s, h)
    ELSE LET r == send_message(send_message([s EXCEPT !.ev.sent = Heartbeat],
                                            Heartbeat, ok), Heartbeat, ok)
         IN  [r EXCEPT !.hb[h] = "sleeping"]

\* _send_heartbeats from its loop test to the sleep.
send_heartbeats(s, h, ok) ==
    IF s.shutdown \/ s.ws = None THEN HbFinish(s, h)
    ELSE LET r == send_message([s EXCEPT !.ev.sent = Heartbeat],
                               Heartbeat, ok)
         IN  IF r.ev.exc THEN HbFinish(r, h)
             ELSE [r EXCEPT !.hb[h] = "sleeping"]

\* -------------------------------------------------------------------- stop
\* (mutant) stop() forgets the registered handlers
StopReturnClearing(s) ==
    [s EXCEPT !.stopPc = "idle", !.stopWait = None, !.handlers = <<>>]

StopReturn(s) == [s EXCEPT !.stopPc = "idle", !.stopWait = None]

CloseSession(s, x) ==
    [s EXCEPT !.sessOpen = @ \ {x},
              !.sock = [u \in Tasks |->
                          IF s.via[u] = x /\ @[u] = "open" THEN "closed"
                          ELSE @[u]]]

StopSession(s) ==
    IF s.session = None THEN StopReturn(s)
    ELSE [CloseSession(s, s.session) EXCEPT !.stopPc = "sess_close"]

StopWs(s) ==
    IF s.ws = None THEN StopSession(s)
    ELSE [s EXCEPT !.sock[s.ws] = "closed", !.stopPc = "ws_close"]

StopHb(s) ==
    LET h == s.heartbeat_task
    IN  IF h = None \/ s.hb[h] \in {"none", "done"} THEN StopWs(s)
        ELSE [s EXCEPT !.hbCancel[h] = TRUE, !.stopPc = "join_hb",
                       !.stopWait = h]

StopTask(s) ==
    LET t == s.connection_task
    IN  IF t = None \/ TaskOver(s, t) THEN StopHb(s)
        ELSE [s EXCEPT !.cancelReq[t] = TRUE, !.stopPc = "join_conn",
                       !.stopWait = t]

\* ----------------------------------------------------------------- helpers
\* A string is a sequence of characters; a literal of the source that the
\* functions treat as a whole ("printer sw ver", "Nebula Pad ") is one
\* element.  Absent is Python's None: a key that dict.get does not find.
Absent == <<"None">>
Whitespace == {" "}
PrinterKey == "printer sw ver"
DwinKey == "DWIN sw ver"

RECURSIVE lstrip(_)
lstrip(x) ==
    IF x # <<>> /\ Head(x) \in Whitespace THEN lstrip(Tail(x)) ELSE x

RECURSIVE rstrip(_)
rstrip(x) ==
    IF x # <<>> /\ x[Len(x)] \in Whitespace
    THEN rstrip(SubSeq(x, 1, Len(x) - 1)) ELSE x

\* str.strip()
strip(x) == rstrip(lstrip(x))

\* The pattern key ":([^;]+)" matches at position i of x.
MatchAt(x, key, i) ==
    /\ i + 2 <= Len(x)
    /\ x[i] = key /\ x[i + 1] = ":" /\ x[i + 2] # ";"

\* re.search(key + ":([^;]+)", x): group 1 of the leftmost match (the
\* longest run without a semicolon), or Absent when nothing matches.
search(x, key) ==
    IF \E i \in 1..Len(x) : MatchAt(x, key, i)
    THEN LET i == CHOOSE i \in 1..Len(x) :
                      /\ MatchAt(x, key, i)
                      /\ \A j \in 1..(i - 1) : ~MatchAt(x, key, j)
             e == CHOOSE e \in (i + 2)..Len(x) :
                      /\ \A k \in (i + 2)..e : x[k] # ";"
                      /\ e = Len(x) \/ x[e + 1] = ";"
         IN  SubSeq(x, i + 2, e)
    ELSE Absent

\* parse_version_info
parse_version_info(version_string) ==
    LET p == search(version_string, PrinterKey)
        d == search(version_string, DwinKey)
    IN  IF p # Absent /\ strip(p) # <<>> THEN strip(p)
        ELSE IF d # Absent /\ strip(d) # <<>> THEN strip(d)
        ELSE Absent

\* (mutant) a hostname of whitespace only is kept as the name
get_device_info_unstripped(data, host) ==
    [name |-> IF data.hostname = Absent \/ data.hostname = <<>>
              THEN <<"Nebula Pad ">> \o host ELSE data.hostname,
     model |-> IF data.model = Absent THEN <<"Unknown Model">>
               ELSE data.model,
     sw_version |-> IF data.modelVersion \in {Absent, <<>>} THEN Absent
                    ELSE parse_version_info(data.modelVersion),
     manufacturer |-> <<"Creality">>,
     connections |-> {<<"ip", host>>}]

\* get_device_info
get_device_info(data, host) ==
    [name |-> IF \/ data.hostname = Absent \/ data.hostname = <<>>
                 \/ strip(data.hostname) = <<>>
              THEN <<"Nebula Pad ">> \o host ELSE data.hostname,
     model |-> IF data.model = Absent THEN <<"Unknown Model">>
               ELSE data.model,
     sw_version |-> IF data.modelVersion \in {Absent, <<>>} THEN Absent
                    ELSE parse_version_info(data.modelVersion),
     manufacturer |-> <<"Creality">>,
     connections |-> {<<"ip", host>>}]

\* ------------------------------------------------------------- config flow
HTTP_OK == 200
Mjpeg == "multipart/x-mixed-replace"

\* (mutant) the status of the camera response is not looked at
validate_input_any_status(probe) ==
    IF probe.ws # "ok" THEN "CannotConnect"
    ELSE IF probe.camera # "ok" THEN "CannotConnect"
    ELSE IF \A i \in 1..Len(probe.content_type) :
                probe.content_type[i] # Mjpeg THEN "CannotConnect"
    ELSE "title"

\* validate_input: probe.ws is how the WebSocket probe ends (connect, send
\* and recv), probe.camera how the GET of the stream ends, probe.status and
\* probe.content_type what the response carries.  Every exception inside
\* the try block leaves as CannotConnect.
validate_input(probe) ==
    IF probe.ws # "ok" THEN "CannotConnect"
    ELSE IF probe.camera # "ok" THEN "CannotConnect"
    ELSE IF probe.status # HTTP_OK THEN "CannotConnect"
    ELSE IF \A i \in 1..Len(probe.content_type) :
                probe.content_type[i] # Mjpeg THEN "CannotConnect"
    ELSE "title"

\* ConfigFlow.async_step_user, user_input given
async_step_user(probe) ==
    IF validate_input(probe) = "CannotConnect"
    THEN [type |-> "form", errors |-> "cannot_connect"]
    ELSE [type |-> "create_entry", errors |-> "none"]

\* ---------------------------------------------------------------- entities
\* The attributes an instance of NebulaPadCoordinator has: the fields set
\* in __init__ and the properties and methods of the class.
CoordinatorAttrs ==
    {"hass", "entry_id", "_host", "_port", "_reconnect_interval", "_ws",
     "_session", "_shutdown", "_connection_task", "_heartbeat_task",
     "_connect_lock", "_message_handlers", "_device_info",
     "_device_info_received", "device_info", "wait_for_device_info",
     "add_message_handler", "remove_message_handler", "send_message",
     "start", "stop", "_handle_device_info", "_maintain_connection",
     "_connect_and_listen", "_listen_for_messages", "_send_heartbeats"}

\* NebulaPadBaseMixin.available: reads coordinator.is_initialized; reading
\* an attribute the object does not have raises AttributeError.
available(coord) ==
    IF "is_initialized" \notin CoordinatorAttrs
    THEN [raised |-> "AttributeError", value |-> Absent]
    ELSE [raised |-> "none", value |-> coord.is_initialized]

\* NebulaPadBaseMixin.device_info
entity_device_info(coord) ==
    IF "is_initialized" \notin CoordinatorAttrs
    THEN [raised |-> "AttributeError", value |-> Absent]
    ELSE IF ~coord.is_initialized THEN [raised |-> "none", value |-> Absent]
    ELSE [raised |-> "none", value |-> coord.device_info]

\* ------------------------------------------------------------- entry setup
\* The parameters of NebulaPadCoordinator.__init__ that have no default.
RequiredParams == {"hass", "entry_id", "host", "port"}

\* Calling the class with keyword arguments kwargs.
NebulaPadCoordinator(kwargs) ==
    IF RequiredParams \subseteq kwargs THEN "coordinator" ELSE "TypeError"

\* async_setup_entry: the coordinator is constructed with host and port
\* only, then stored in hass.data under the entry id and started.
async_setup_entry(entry) ==
    IF NebulaPadCoordinator({"host", "port"}) = "TypeError"
    THEN [raised |-> "TypeError", stored |-> {}, started |-> {}]
    ELSE [raised |-> "none", stored |-> {entry}, started |-> {entry}]

\* ------------------------------------------------------- sensor platform
\* the platform at the start of a step
Now == [platform EXCEPT !.updated = {}]

\* WebSocketCoordinator.start called by entity e
WebSocketCoordinator_start(p, e) ==
    [p EXCEPT !.shutdown = FALSE, !.connection_task = e, !.mt[e] = "ready"]

\* NebulaPadBaseSensor.async_added_to_hass
async_added_to_hass(p, e) ==
    [WebSocketCoordinator_start(p, e) EXCEPT !.entity[e] = "added"]

\* stop() returns to async_will_remove_from_hass
SensorStopReturn(p, e) ==
    [p EXCEPT !.rm[e] = "idle", !.rmWait[e] = None, !.entity[e] = "removed"]

\* stop(): `if self._ws and not self._ws.closed: await self._ws.close()`
SensorStopWs(p, e) ==
    IF p.ws # None /\ p.sock[p.ws] = "open"
    THEN [p EXCEPT !.sock[p.ws] = "closed", !.rm[e] = "ws_close"]
    ELSE SensorStopReturn(p, e)

\* stop(): cancel the heartbeat sub-task and await it
SensorStopHb(p, e) ==
    LET h == p.heartbeat_task
    IN  IF h = None \/ p.hb[h] \in {"none", "done"} THEN SensorStopWs(p, e)
        ELSE [p EXCEPT !.hbCancel[h] = TRUE, !.rm[e] = "join_hb",
                       !.rmWait[e] = h]

\* WebSocketCoordinator.stop called by entity e, up to its first await that
\* suspends
WebSocketCoordinator_stop(p, e) ==
    LET t == p.connection_task
        r == [p EXCEPT !.shutdown = TRUE]
    IN  IF t = None \/ r.mt[t] \in {"none", "done", "cancelled"}
        THEN SensorStopHb(r, e)
        ELSE [r EXCEPT !.cancelReq[t] = TRUE, !.rm[e] = "join_conn",
                       !.rmWait[e] = t]

\* NebulaPadBaseSensor.async_will_remove_from_hass
async_will_remove_from_hass(p, e) ==
    WebSocketCoordinator_stop([p EXCEPT !.entity[e] = "removing"], e)

\* CancelledError leaves the maintenance task
SensorCancelled(p, t) ==
    [p EXCEPT !.mt[t] = "cancelled", !.cancelReq[t] = FALSE]

\* An exception leaves _connect_and_listen: the lock is released and
\* _maintain_connection sleeps the reconnect interval unless shut down.
SensorFailed(p, t) ==
    LET r == [p EXCEPT !.lock = None]
    IN  IF r.shutdown THEN [r EXCEPT !.mt[t] = "done"]
        ELSE [r EXCEPT !.mt[t] = "sleeping"]

\* _connect_and_listen once the lock is held, up to websockets.connect
SensorDial(p, t) ==
    IF p.shutdown THEN [p EXCEPT !.lock = None, !.mt[t] = "done"]
    ELSE [p EXCEPT !.mt[t] = "connecting"]

\* the loop test of _maintain_connection and the entry of
\* _connect_and_listen
SensorLoopTop(p, t) ==
    IF p.shutdown THEN [p EXCEPT !.mt[t] = "done"]
    ELSE IF p.lock = None
                /\ \A u \in Entities : p.mt[u] = "lock_wait" => p.cancelReq[u]
         THEN SensorDial([p EXCEPT !.lock = t], t)
    ELSE [p EXCEPT !.mt[t] = "lock_wait"]

\* the end of the finally block: the websockets.connect context exits
SensorAfterJoin(p, t, mode) ==
    [p EXCEPT !.heartbeat_task = None, !.mt[t] = "ws_exit",
              !.unwind[t] = mode, !.cancelReq[t] = FALSE]

\* the finally block of _connect_and_listen; self._ws is left as it is
SensorEnterFinally(p, t, mode) ==
    LET h == p.heartbeat_task
    IN  IF h = None THEN [p EXCEPT !.mt[t] = "ws_exit", !.unwind[t] = mode,
                                   !.cancelReq[t] = FALSE]
        ELSE IF p.hb[h] \in {"none", "done"} THEN SensorAfterJoin(p, t, mode)
        ELSE [p EXCEPT !.hbCancel[h] = TRUE, !.mt[t] = "hb_join",
                       !.unwind[t] = mode, !.cancelReq[t] = FALSE]

\* the loop test of _listen_for_messages
SensorListen(p, t) ==
    IF p.shutdown THEN SensorEnterFinally(p, t, "normal")
    ELSE [p EXCEPT !.mt[t] = "receiving"]

\* websockets.connect succeeded
SensorConnected(p, t) ==
    SensorListen([p EXCEPT !.ws = t, !.sock[t] = "open",
                           !.heartbeat_task = t, !.hb[t] = "ready",
                           !.hbCancel[t] = FALSE], t)

\* handle_temperature_update: every sensor of the entities list whose key
\* the object holds takes the value and writes its state
handle_temperature_update(p, f) ==
    [p EXCEPT !.value = [e \in Entities |->
                            IF e \in TempKeys[f] THEN Temp ELSE @[e]],
              !.updated = TempKeys[f]]

\* one iteration of the receive loop on frame f
SensorProcessFrame(p, t, f) ==
    IF f = "closed"
    THEN SensorEnterFinally([p EXCEPT !.sock[t] = "closed"], t, "normal")
    ELSE SensorListen(handle_temperature_update(p, f), t)

\* _send_heartbeats from its loop test to the sleep
SensorHeartbeat(p, h, ok) ==
    IF p.shutdown \/ p.ws = None \/ p.sock[p.ws] # "open" \/ ~ok
    THEN [p EXCEPT !.hb[h] = "done", !.hbCancel[h] = FALSE]
    ELSE [p EXCEPT !.hb[h] = "sleeping"]

\* =================================================================== actions
\* start()
start ==
    /\ stopPc = "idle" /\ nStarts < MaxStarts
    /\ LET t == nStarts + 1
       IN  Becomes([Cur EXCEPT !.shutdown = FALSE, !.session = t,
                               !.sessOpen = @ \cup {t},
                               !.connection_task = t, !.mt[t] = "ready",
                               !.nStarts = t])

\* stop(), up to its first await that suspends
stop ==
    /\ stopPc = "idle"
    /\ Becomes(StopTask([Cur EXCEPT !.shutdown = TRUE]))

\* stop() resumed: the maintenance task it awaited is over
StopJoinedTask ==
    /\ stopPc = "join_conn" /\ TaskOver(Cur, stopWait)
    /\ Becomes(StopHb(Cur))

\* stop() resumed: the heartbeat sub-task it awaited is over
StopJoinedHb ==
    /\ stopPc = "hb_joined"
    /\ Becomes(StopWs(Cur))

\* stop() resumed: ws.close() returned
StopWsClosed ==
    /\ stopPc = "ws_close"
    /\ Becomes(StopSession([Cur EXCEPT !.ws = None]))

\* stop() resumed: session.close() returned
StopSessClosed ==
    /\ stopPc = "sess_close"
    /\ Becomes(StopReturn([Cur EXCEPT !.session = None]))

\* send_message called by an entity
SendMessage ==
    \E m \in Msgs, ok \in BOOLEAN :
        /\ outcome[m] = "none"
        /\ \A k \in Msgs : k < m => outcome[k] # "none"
        /\ Becomes(send_message(
               [Cur EXCEPT !.ev.sent = m,
                           !.outcome[m] = IF ws = None THEN "nosock"
                                          ELSE "sock"], m, ok))

AddHandler ==
    \E h \in HandlerIds :
        /\ Len(handlers) < MaxHandlers
        /\ Becomes(add_message_handler(Cur, h))

RemoveHandler ==
    \E h \in HandlerIds :
        Becomes(remove_message_handler([Cur EXCEPT !.ev.removed = h], h))

\* first run of a maintenance task
TaskRun(t) ==
    /\ mt[t] = "ready"
    /\ Becomes(IF cancelReq[t] THEN Cancelled(Cur, t) ELSE LoopTop(Cur, t))

\* a task waiting for the connect lock is resumed
LockGranted(t) ==
    /\ mt[t] = "lock_wait"
    /\ cancelReq[t] \/ lock = None
    /\ Becomes(IF cancelReq[t] THEN Cancelled(Cur, t)
               ELSE Dial([Cur EXCEPT !.lock = t], t))

\* ws_connect returns or raises
ConnectDone(t) ==
    /\ mt[t] = "connecting"
    /\ \E ok \in BOOLEAN :
         Becomes(IF cancelReq[t]
                 THEN Cancelled([Cur EXCEPT !.lock = None], t)
                 ELSE IF ok /\ via[t] \in sessOpen THEN Connected(Cur, t)
                 ELSE Failed(Cur, t))

\* ws.receive() returns a frame or raises
Receive(t) ==
    /\ mt[t] = "receiving"
    /\ \E f \in Frames :
         \E regOk \in {TRUE} \cup {~(JsonBound /\ f = "ident")},
            raisers \in SUBSET (IF f \in JsonFrames THEN Registered(handlers)
                                ELSE {}),
            mut \in (IF f \in JsonFrames THEN HandlerMutations(handlers)
                     ELSE {NoMut}) :
           /\ sock[t] = "closed" => f \in {"closed", "raise"}
           /\ mut = NoMut \/ raisers = {}
           /\ Becomes(IF cancelReq[t] THEN EnterFinally(Cur, t, "cancel")
                      ELSE ProcessFrame(Cur, t, f, regOk, raisers, mut))

\* the heartbeat sub-task awaited in the finally block is over
HbJoined(t) ==
    /\ mt[t] = "hb_join" /\ HbOver(Cur, t)
    /\ Becomes(AfterJoin(Cur, t, unwind[t]))

\* the ws_connect context has closed the socket
WsExit(t) ==
    /\ mt[t] = "ws_exit"
    /\ LET s == [Cur EXCEPT !.sock[t] = "none", !.lock = None]
       IN  Becomes(IF cancelReq[t] \/ unwind[t] = "cancel"
                   THEN Cancelled(s, t) ELSE Reenter(s, t))

\* the reconnect sleep is over
Wake(t) ==
    /\ mt[t] = "sleeping"
    /\ Becomes(IF cancelReq[t] THEN Cancelled(Cur, t) ELSE LoopTop(Cur, t))

\* the heartbeat sub-task runs: first run, or its sleep is over
HbRun(h) ==
    /\ hb[h] \in {"ready", "sleeping"}
    /\ \E ok \in BOOLEAN :
         Becomes(IF hbCancel[h] THEN HbFinish(Cur, h)
                 ELSE send_heartbeats(Cur, h, ok))

\* ---------------------------------------------------------- helper calls
\* Each is one call on inputs drawn from the sets below, made once.
coordinator == <<ws, session, shutdown, connection_task, heartbeat_task,
                 lock, handlers, device_info, received, mt, cancelReq,
                 unwind, hb, hbCancel, sock, via, sessOpen, stopPc,
                 stopWait, nStarts, norest, ev, outcome, writes>>

Alphabet(chars) ==
    UNION {[1..n -> chars] : n \in 0..MaxLen}

VersionChars == {PrinterKey, DwinKey, ":", ";", " ", "1"}
Hostnames == {Absent} \cup Alphabet({" ", "a"})
Models == {Absent, <<"K", "2">>}
ModelVersions == {Absent, <<>>, <<DwinKey, ":", "1", ";">>}
Hosts == {<<"h">>, <<"1", "0">>}

ParseVersionInfo ==
    \E x \in Alphabet(VersionChars) :
        /\ call = NoCall
        /\ call' = [fn |-> "parse_version_info", version_string |-> x]
        /\ ret' = [value |-> parse_version_info(x)]
        /\ UNCHANGED <<coordinator, platform>>

GetDeviceInfo ==
    \E h \in Hostnames, m \in Models, v \in ModelVersions, host \in Hosts :
        LET data == [hostname |-> h, model |-> m, modelVersion |-> v]
        IN  /\ call = NoCall
            /\ call' = [fn |-> "get_device_info", data |-> data,
                        host |-> host]
            /\ ret' = get_device_info(data, host)
            /\ UNCHANGED <<coordinator, platform>>

WsProbes == {"ok", "refused", "send_failed", "recv_failed"}
CameraProbes == {"ok", "refused"}
Statuses == {HTTP_OK, 404, 500}
ContentTypes == {<<>>, <<"text/html">>, <<Mjpeg>>, <<Mjpeg, ";boundary=b">>}

AsyncStepUser ==
    \E w \in WsProbes, c \in CameraProbes, st \in Statuses,
       ct \in ContentTypes :
        LET probe == [ws |-> w, camera |-> c, status |-> st,
                      content_type |-> ct]
        IN  /\ call = NoCall
            /\ call' = [fn |-> "async_step_user", probe |-> probe]
            /\ ret' = async_step_user(probe)
            /\ UNCHANGED <<coordinator, platform>>

\* An entity's property is read while the coordinator has no identity.
EntityProperties == {"available", "device_info"}

EntityRead ==
    \E prop \in EntityProperties :
        LET coord == [device_info |-> Absent]
        IN  /\ call = NoCall
            /\ call' = [fn |-> "entity", property |-> prop,
                        coordinator |-> coord]
            /\ ret' = IF prop = "available" THEN available(coord)
                      ELSE entity_device_info(coord)
            /\ UNCHANGED <<coordinator, platform>>

Entries == {"entry1", "entry2"}

AsyncSetupEntry ==
    \E entry \in Entries :
        /\ call = NoCall
        /\ call' = [fn |-> "async_setup_entry", entry |-> entry]
        /\ ret' = async_setup_entry(entry)
        /\ UNCHANGED <<coordinator, platform>>

\* ------------------------------------------------------ sensor platform
SensorBecomes(p) ==
    /\ platform' = p
    /\ UNCHANGED <<coordinator, call, ret>>

\* Home Assistant adds sensor e
EntityAdded(e) ==
    /\ platform.entity[e] = "new"
    /\ SensorBecomes(async_added_to_hass(Now, e))

\* Home Assistant removes sensor e
EntityRemoved(e) ==
    /\ platform.entity[e] = "added"
    /\ SensorBecomes(async_will_remove_from_hass(Now, e))

\* stop() of e resumed: the maintenance task it awaited is over
SensorStopJoinedTask(e) ==
    /\ platform.rm[e] = "join_conn"
    /\ platform.mt[platform.rmWait[e]] \in {"done", "cancelled"}
    /\ SensorBecomes(SensorStopHb(Now, e))

\* stop() of e resumed: the heartbeat sub-task it awaited is over
SensorStopJoinedHb(e) ==
    /\ platform.rm[e] = "join_hb"
    /\ platform.hb[platform.rmWait[e]] = "done"
    /\ SensorBecomes(SensorStopWs(Now, e))

\* stop() of e resumed: self._ws.close() returned
SensorStopWsClosed(e) ==
    /\ platform.rm[e] = "ws_close"
    /\ SensorBecomes(SensorStopReturn([Now EXCEPT !.ws = None], e))

\* first run of a maintenance task
SensorTaskRun(t) ==
    /\ platform.mt[t] = "ready"
    /\ SensorBecomes(IF platform.cancelReq[t] THEN SensorCancelled(Now, t)
                     ELSE SensorLoopTop(Now, t))

\* a task waiting for the connect lock is resumed
SensorLockGranted(t) ==
    /\ platform.mt[t] = "lock_wait"
    /\ platform.cancelReq[t] \/ platform.lock = None
    /\ SensorBecomes(IF platform.cancelReq[t] THEN SensorCancelled(Now, t)
                     ELSE SensorDial([Now EXCEPT !.lock = t], t))

\* websockets.connect returns or raises
SensorConnectDone(t) ==
    /\ platform.mt[t] = "connecting"
    /\ \E ok \in BOOLEAN :
         SensorBecomes(IF platform.cancelReq[t]
                       THEN SensorCancelled([Now EXCEPT !.lock = None], t)
                       ELSE IF ok THEN SensorConnected(Now, t)
                       ELSE SensorFailed(Now, t))

\* self._ws.recv() returns a message or raises
SensorReceive(t) ==
    /\ platform.mt[t] = "receiving"
    /\ \E f \in SensorFrames :
         /\ platform.sock[t] = "closed" => f = "closed"
         /\ SensorBecomes(IF platform.cancelReq[t]
                          THEN SensorEnterFinally(Now, t, "cancel")
                          ELSE SensorProcessFrame(Now, t, f))

\* the heartbeat sub-task awaited in the finally block is over
SensorHbJoined(t) ==
    /\ platform.mt[t] = "hb_join"
    /\ platform.hb[platform.heartbeat_task] \in {"none", "done"}
    /\ SensorBecomes(SensorAfterJoin(Now, t, platform.unwind[t]))

\* the websockets.connect context has closed the socket
SensorWsExit(t) ==
    /\ platform.mt[t] = "ws_exit"
    /\ LET p == [Now EXCEPT !.sock[t] = "closed", !.lock = None]
       IN  SensorBecomes(IF platform.cancelReq[t]
                            \/ platform.unwind[t] = "cancel"
                         THEN SensorCancelled(p, t)
                         ELSE SensorLoopTop(p, t))

\* the reconnect sleep is over
SensorWake(t) ==
    /\ platform.mt[t] = "sleeping"
    /\ SensorBecomes(IF platform.cancelReq[t] THEN SensorCancelled(Now, t)
                     ELSE SensorLoopTop(Now, t))

\* the heartbeat sub-task runs: first run, or its sleep is over
SensorHbRun(h) ==
    /\ platform.hb[h] \in {"ready", "sleeping"}
    /\ \E ok \in BOOLEAN :
         SensorBecomes(IF platform.hbCancel[h]
                       THEN [Now EXCEPT !.hb[h] = "done",
                                        !.hbCancel[h] = FALSE]
                       ELSE SensorHeartbeat(Now, h, ok))

\* the steps of the coordinator's own tasks and of stop()
Internal ==
    \/ StopJoinedTask \/ StopJoinedHb \/ StopWsClosed \/ StopSessClosed
    \/ \E t \in Tasks : TaskRun(t)
    \/ \E t \in Tasks : LockGranted(t)
    \/ \E t \in Tasks : ConnectDone(t)
    \/ \E t \in Tasks : Receive(t)
    \/ \E t \in Tasks : HbJoined(t)
    \/ \E t \in Tasks : WsExit(t)
    \/ \E t \in Tasks : Wake(t)
    \/ \E t \in Tasks : HbRun(t)

\* the connection life cycle alone: no entity sends or registers
NextLife == start \/ stop \/ Internal

\* the session alone: a fixed handler collection
NextSession == NextLife \/ SendMessage

Next == NextSession \/ AddHandler \/ RemoveHandler

Spec == Init /\ [][Next]_vars

SpecSession == Init /\ [][NextSession]_vars

\* the fairness of the event loop: a task that can be resumed is resumed.
\* Every step of a coordinator task is the completion of an await that the
\* loop or the network layer ends (a cancelled task is rescheduled, a close
\* handshake and a connect time out); calls from outside have no fairness.
Fairness ==
    \A t \in Tasks :
        /\ WF_vars(TaskRun(t)) /\ WF_vars(LockGranted(t))
        /\ WF_vars(ConnectDone(t)) /\ WF_vars(HbJoined(t))
        /\ WF_vars(WsExit(t)) /\ WF_vars(Wake(t)) /\ WF_vars(HbRun(t))

FairSpec == Init /\ [][NextLife]_vars /\ Fairness

\* the connection life cycle with handlers registered and removed
NextHandlers == NextLife \/ AddHandler \/ RemoveHandler

SpecHandlers == Init /\ [][NextHandlers]_vars

\* the pure functions of helpers.py and the configuration step
NextHelpers ==
    \/ ParseVersionInfo \/ GetDeviceInfo \/ AsyncStepUser
    \/ EntityRead \/ AsyncSetupEntry

SpecHelpers == Init /\ [][NextHelpers]_vars

\* the sensor platform: its two entities and the coordinator they share
NextSensors ==
    \E e \in Entities :
        \/ EntityAdded(e) \/ EntityRemoved(e)
        \/ SensorStopJoinedTask(e) \/ SensorStopJoinedHb(e)
        \/ SensorStopWsClosed(e)
        \/ SensorTaskRun(e) \/ SensorLockGranted(e) \/ SensorConnectDone(e)
        \/ SensorReceive(e) \/ SensorHbJoined(e) \/ SensorWsExit(e)
        \/ SensorWake(e) \/ SensorHbRun(e)

SpecSensors == Init /\ [][NextSensors]_vars

\* ==================================================================== claims
\* stop() has returned and start() has not been called since
Stopped == shutdown /\ stopPc = "idle"

Alive == {t \in Tasks : ~TaskOver(Cur, t)}

\* C1: every well-formed JSON frame received on the open connection is
\* handed to every registered handler exactly once, in registration order.
C1_EveryHandlerOnceInOrder ==
    ev.recv \in JsonFrames => ev.calls = handlers

\* C2: when a registered handler raises on a message, every registered
\* handler is still invoked for it, the receive loop keeps reading and the
\* connection stays open.
C2_RaisingHandlerIsolated ==
    (/\ ev.recv \in JsonFrames
     /\ \E i \in 1..Len(handlers) : handlers[i] \in ev.raisers
     /\ ~shutdown)
    => /\ ev.calls = handlers
       /\ mt[ev.rtask] = "receiving"
       /\ ws = ev.rtask /\ sock[ev.rtask] = "open"

\* C3: once stop() has returned, no handler is invoked and nothing is
\* written to a socket.
C3_QuietAfterStop ==
    Stopped => (ev.wrote = 0 /\ ev.calls = <<>>)

\* C4: after a connection is lost (closed by the peer, protocol error, or
\* receive raising) while no shutdown is requested, a new connect attempt
\* follows, unless stop() is called first.
C4_ReconnectsAfterLoss ==
    (ev.recv \in {"closed", "raise"} /\ ~shutdown)
        ~> (shutdown \/ \E u \in Tasks : mt[u] = "connecting")

C4_Witness ==
    /\ ev.recv = "closed" /\ ~shutdown
    /\ \A u \in Tasks : mt[u] # "connecting"

\* C5: a coordinator never has two sockets, and at most one maintenance
\* task is inside the section guarded by the connect lock, also when
\* several maintenance tasks run.
C5_OneSocket ==
    /\ Cardinality({t \in Tasks : sock[t] # "none"}) <= 1
    /\ Cardinality({t \in Tasks :
           mt[t] \in {"connecting", "receiving", "hb_join", "ws_exit"}}) <= 1

C5_Witness ==
    \E t, u \in Tasks :
        /\ t # u /\ mt[t] = "receiving" /\ sock[t] = "open"
        /\ mt[u] = "lock_wait" /\ ~cancelReq[u]

\* C6: start() is idempotent: however often it is called, one maintenance
\* task and one client session exist.
C6_StartIdempotent ==
    /\ Cardinality(Alive) <= 1
    /\ Cardinality(sessOpen) <= 1

\* C7: stop() leaves the socket handle and the session absent, in whatever
\* state it was called.
C7_StopLeavesNothing ==
    Stopped => (ws = None /\ session = None)

\* C8: when stop() has returned, every maintenance task and every
\* heartbeat sub-task the coordinator created has terminated.
C8_NoTaskLeft ==
    Stopped => \A t \in Tasks : TaskOver(Cur, t) /\ HbOver(Cur, t)

\* C9: a message passed to send_message while self._ws is None is never
\* written to a socket, neither by that call nor later.
C9_DroppedWithoutSocket ==
    /\ \A m \in Msgs : outcome[m] = "nosock" => writes[m] = 0
    /\ (ev.sent \in Msgs /\ outcome[ev.sent] = "nosock")
           => (ev.wrote = 0 /\ ~ev.exc)

C9_Witness ==
    \E m \in Msgs :
        /\ outcome[m] = "nosock" /\ ev.sent # m
        /\ ws # None /\ sock[ws] = "open"

\* C10: a message is written at most once; a failing write raises nothing
\* to the caller and changes neither the socket handle nor the tasks.
C10_NoRetry ==
    /\ [](/\ \A m \in Msgs : writes[m] <= 1
          /\ ev.wrote <= 1
          /\ ~ev.exc
          /\ (ev.sent \in Msgs /\ ev.failed) => writes[ev.sent] = 0)
    /\ [][(ev'.sent \in Msgs /\ ev'.failed)
             => /\ ws' = ws /\ sock' = sock
                /\ mt' = mt /\ hb' = hb
                /\ connection_task' = connection_task
                /\ heartbeat_task' = heartbeat_task
                /\ cancelReq' = cancelReq /\ hbCancel' = hbCancel]_vars

C10_Witness ==
    /\ ev.sent \in Msgs /\ ev.failed
    /\ sock[ws] = "open"

\* C11: a TEXT frame that is the literal ok invokes no handler and updates
\* no identity, and unless shutdown is requested the receive loop reads on
\* from the same connection: socket handle and heartbeat sub-task stay.
C11_OkFrameIsAck ==
    /\ [](ev.recv = "ok" =>
            /\ ev.calls = <<>>
            /\ ~shutdown => /\ mt[ev.rtask] = "receiving"
                            /\ ws = ev.rtask /\ sock[ev.rtask] = "open")
    /\ [][ev'.recv = "ok" =>
            /\ device_info' = device_info /\ received' = received
            /\ ~shutdown' => /\ ws' = ws /\ sock' = sock
                             /\ heartbeat_task' = heartbeat_task
                             /\ hb' = hb /\ hbCancel' = hbCancel]_vars

C11_Witness ==
    /\ ev.recv = "ok" /\ handlers # <<>> /\ ~shutdown
    /\ mt[ev.rtask] = "receiving"

\* C12: a TEXT frame that is neither ok nor JSON invokes no handler and
\* leaves the connection open: the task reads the next frame from the
\* same socket and the heartbeat sub-task is not cancelled.
C12_MalformedFrameSkipped ==
    (ev.recv = "bad" /\ ~shutdown)
    => /\ ev.calls = <<>>
       /\ mt[ev.rtask] = "receiving"
       /\ ws = ev.rtask /\ sock[ev.rtask] = "open"
       /\ heartbeat_task = ev.rtask /\ ~hbCancel[ev.rtask]

\* C13: a maintenance task begins a ws_connect only when it is new or has
\* slept the reconnect interval since its previous attempt ended, and never
\* when shutdown is requested.
C13_WaitsBeforeReconnect ==
    ev.dialled => (ev.rested /\ ~shutdown)

\* C14: when the send of a heartbeat fails, the heartbeat sub-task ends
\* (it sends no further heartbeat on that connection), while the
\* maintenance task goes on receiving on the same socket.
C14_HeartbeatEndsOnFailure ==
    (ev.sent = Heartbeat /\ ev.failed /\ ~shutdown)
    => /\ HbOver(Cur, ws)
       /\ mt[ws] = "receiving"

\* C15: start() returns at once and raises nothing, and a maintenance task
\* ends only when shutdown is requested: after a connect failure, a receive
\* error, a malformed frame or a failed send it is connected or retrying.
C15_OnlyShutdownEndsTask ==
    /\ [](~ev.exc)
    /\ [][/\ \A t \in Tasks :
               (TaskOver(Cur, t)' /\ ~TaskOver(Cur, t)) => shutdown'
          /\ nStarts' # nStarts =>
               (stopPc' = "idle" /\ mt'[nStarts'] = "ready")
          /\ (ev'.failed \/ ev'.recv \in {"raise", "closed", "bad"})
               => \A t \in Tasks : ~TaskOver(Cur, t) => ~TaskOver(Cur, t)'
         ]_vars

C15_Witness ==
    \E t \in Tasks :
        /\ mt[t] = "sleeping" /\ ~shutdown /\ ~cancelReq[t]
        /\ sock[t] = "none"

\* C16: remove_message_handler with a handler that is not registered
\* raises nothing and leaves the handler collection as it was.
C16_RemoveAbsentIsNoOp ==
    [][(ev'.removed # "none" /\ ev'.removed \notin Registered(handlers))
          => (handlers' = handlers /\ ~ev'.exc)]_vars

C16_Witness ==
    /\ ev.removed # "none" /\ ev.removed \notin Registered(handlers)
    /\ handlers # <<>>

\* the hostname of the message is missing, empty or only whitespace
Blank(h) == h = Absent \/ \A i \in 1..Len(h) : h[i] \in Whitespace

\* C17: get_device_info names the device by the reported hostname when
\* that is present and not blank and by "Nebula Pad <host>" otherwise; the
\* manufacturer is the constant Creality.
C17_NamedByHostname ==
    call.fn = "get_device_info" =>
        /\ ret.name = IF Blank(call.data.hostname)
                      THEN <<"Nebula Pad ">> \o call.host
                      ELSE call.data.hostname
        /\ ret.manufacturer = <<"Creality">>

C17_Witness ==
    /\ call.fn = "get_device_info"
    /\ call.data.hostname = <<" ", " ">>
    /\ ret.name = <<"Nebula Pad ">> \o call.host

\* split on sep
RECURSIVE split(_, _)
split(x, sep) ==
    IF \A i \in 1..Len(x) : x[i] # sep THEN <<x>>
    ELSE LET i == CHOOSE i \in 1..Len(x) :
                      x[i] = sep /\ \A j \in 1..(i - 1) : x[j] # sep
         IN  <<SubSeq(x, 1, i - 1)>> \o split(SubSeq(x, i + 1, Len(x)), sep)

\* the key:value segments of a version string whose key is key and whose
\* value is not blank, in order
SegmentValues(x, key) ==
    LET segs == split(x, ";")
        kv(g) == split(g, ":")
        hit(g) == /\ Len(kv(g)) >= 2
                  /\ strip(kv(g)[1]) = <<key>>
                  /\ strip(SubSeq(g, Len(kv(g)[1]) + 2, Len(g))) # <<>>
    IN  SelectSeq(segs, hit)

\* the reference: the value of the first segment with that key
SegmentVersion(x) ==
    LET val(g) == strip(SubSeq(g, Len(split(g, ":")[1]) + 2, Len(g)))
        p == SegmentValues(x, PrinterKey)
        d == SegmentValues(x, DwinKey)
    IN  IF p # <<>> THEN val(p[1])
        ELSE IF d # <<>> THEN val(d[1])
        ELSE Absent

\* C18: parse_version_info returns the value of the "printer sw ver"
\* segment when one exists with a non-blank value, else that of the
\* "DWIN sw ver" segment, else nothing: it agrees with splitting on ";"
\* and matching the key of each segment.
C18_AgreesWithSegments ==
    call.fn = "parse_version_info" =>
        ret.value = SegmentVersion(call.version_string)

C21_HeartbeatOnlyWhileConnected ==
    /\ Cardinality({h \in Tasks : ~HbOver(Cur, h)}) <= 1
    /\ \A h \in Tasks :
           ~HbOver(Cur, h) => /\ mt[h] \in {"receiving", "hb_join"}
                              /\ heartbeat_task = h
    /\ \A t \in Tasks : mt[t] = "receiving" => hb[t] # "none"
    /\ ev.dialled => \A h \in Tasks : HbOver(Cur, h)
    /\ (ev.sent = Heartbeat /\ ev.wrote > 0)
           => (ws # None /\ ~HbOver(Cur, ws) /\ sock[ws] = "open")

C21_Witness ==
    /\ ev.dialled /\ ~ev.rested
    /\ \E h \in Tasks : hb[h] = "done"

\* C23: the socket handle is present exactly while a connection is open:
\* it never refers to a socket that is closed, and a task that reads from
\* an open socket has it in the handle.
C23_HandleIffConnectionOpen ==
    /\ ws # None => sock[ws] = "open"
    /\ \A t \in Tasks : (mt[t] = "receiving" /\ sock[t] = "open") => ws = t

\* C24: every heartbeat step makes exactly one send and then waits one
\* heartbeat interval, and the first step of a heartbeat sub-task is such a
\* send unless the sub-task ends: sends and waits alternate strictly.
C24_HeartbeatAlternates ==
    [][/\ ev'.sent = Heartbeat =>
            /\ ws # None /\ ws' = ws
            /\ hb[ws] \in {"ready", "sleeping"} /\ hb'[ws] = "sleeping"
            /\ ev'.wrote + (IF ev'.failed THEN 1 ELSE 0) = 1
       /\ \A h \in Tasks :
            (hb[h] \in {"ready", "sleeping"} /\ ev'.sent # Heartbeat)
                => hb'[h] \in {hb[h], "done"}
      ]_vars

C24_Witness ==
    /\ ev.sent = Heartbeat /\ ev.wrote = 1
    /\ ws # None /\ hb[ws] = "sleeping" /\ mt[ws] = "receiving"

\* C22: an inbound object that carries hostname, model and modelVersion
\* updates the device identity and sets the received signal.
C22_IdentityUpdatedByFullObject ==
    ev.recv = "ident" => (device_info # None /\ received)

\* occurrences of h in q
Count(q, h) == Cardinality({i \in 1..Len(q) : q[i] = h})

\* C27: when a handler changes the handler collection during the dispatch
\* of a message, every handler registered when the dispatch began, other
\* than one it removed, is invoked for the message once per registration.
C27_DispatchSurvivesMutation ==
    (ev.recv \in JsonFrames /\ ev.mut # NoMut)
    => \A h \in HandlerIds :
           ~(ev.mut.op = "remove" /\ ev.mut.arg = h)
               => Count(ev.calls, h) >= Count(ev.regd, h)
                  /\ (ev.mut.op = "remove"
                          => Count(ev.calls, h) = Count(ev.regd, h))

\* the fields that start(), stop() and the coordinator's tasks work on
lifecycle == <<ws, session, shutdown, connection_task, heartbeat_task, lock,
               mt, cancelReq, unwind, hb, hbCancel, sock, via, sessOpen,
               stopPc, stopWait, nStarts, norest>>

C25_EntityToleratesNoIdentity ==
    (call.fn = "entity" /\ call.coordinator.device_info = Absent)
    => /\ ret.raised = "none"
       /\ call.property = "available" => ret.value = FALSE
       /\ call.property = "device_info" => ret.value = Absent

\* C26: after async_setup_entry exactly one coordinator is stored for the
\* entry and it has been started.
C26_SetupStoresStartedCoordinator ==
    call.fn = "async_setup_entry"
    => /\ ret.raised = "none"
       /\ ret.stored = {call.entry} /\ ret.started = {call.entry}

\* C31: in the sensor platform the coordinator shared by the nozzle and the
\* bed sensor keeps running while at least one of the two sensors is
\* added: it is not shut down and its maintenance task is alive.
C31_SharedCoordinatorOutlivesOneEntity ==
    (\E e \in Entities : platform.entity[e] = "added")
    => /\ ~platform.shutdown
       /\ platform.connection_task # None
       /\ platform.mt[platform.connection_task] \notin {"done", "cancelled"}
====
